---- MODULE Spec2Model ----
(***************************************************************************)
(* A model of the Low-Latency-Limit-Order-Book Python layer:               *)
(*   - strategy.py          the market-making backtest (run_backtest)      *)
(*   - analysis/*.py        loader, validator, feature engine, labels      *)
(*                                                                         *)
(* Real numbers are fixed-point integers, multiples of 1/Scale.  A value   *)
(* pandas/numpy may leave missing is an option: NaN == <<>>, a present v   *)
(* is <<v>>.                                                               *)
(***************************************************************************)
EXTENDS Integers, Sequences, FiniteSets, TLC

VARIABLES
    \* ---- strategy.py, run_backtest ----
    pc,            \* "loop" while the event loop runs, "done" after the return
    params,        \* AvellanedaStoikovParams of the run
    idx,           \* number of events processed so far (enumerate index of the next)
    snapshots,     \* the snapshot buffer (list of feature vectors)
    inventory,     \* fixed-point
    cash,          \* fixed-point
    trades,        \* trade count
    order_id,      \* next order id
    book,          \* engine-owned top of book after the last engine call
    event,         \* the event processed by the last iteration
    submitted,     \* orders passed to book.add_order in the last iteration
    locals,        \* the quoting step's local values in the last iteration
    matchLog,      \* every trade returned by a quote-step book.match()
    result,        \* BacktestResult (once pc = "done")
    env,           \* the run's surroundings: length of the event stream, how many
                   \* trades the engine reports at most, how it reports an empty side
    issued,        \* number of book.add_order calls made so far
    eventLog,      \* trades returned by an event-step book.match() that fill a quote
    \* ---- analysis/load_lobster.py ----
    ld_message,    \* rows of the message CSV
    ld_orderbook,  \* rows of the orderbook CSV
    chunk_rows,    \* 0 stands for None (batch mode)
    ld_pos,        \* chunks the two readers have handed out
    ld_yielded,    \* frames yielded (chunked) or returned (batch)
    ld_status,     \* "start", "iterating", "returned", "exhausted", "raised"
    \* ---- analysis/features.py, _rolling_event_rate ----
    time_ns,       \* the timestamps
    window_ns,     \* the window
    left,          \* the left pointer (0-based, as in the source)
    rt_idx,        \* the for loop's idx (0-based)
    rates,         \* rates written so far
    rt_pc,         \* "idle", "sweep", "done"
    \* ---- analysis/labels.py, generate_labels ----
    lb_df,         \* the frame: rows with mid and spread
    horizons,      \* the horizons still to process
    labeled,       \* the columns added so far, one record per horizon
    lb_pc,         \* "idle", "loop", "done"
    \* ---- analysis/clean_validate.py, sanity_checks ----
    sn_df,         \* the frame
    sn_levels,     \* num_levels
    sn_summary,    \* the returned summary
    sn_pc,         \* "idle", "call", "done"
    \* ---- analysis/features.py, compute_features (two calls) ----
    ft_df,         \* the frames of the two calls
    ft_topk,       \* topk
    ft_pad,        \* whether this pandas' pct_change pads missing values
    ft_out         \* the frames returned by the two calls (<<>> before)

btVars == <<pc, params, idx, snapshots, inventory, cash, trades, order_id,
            book, event, submitted, locals, matchLog, result, env, issued, eventLog>>

ldVars == <<ld_message, ld_orderbook, chunk_rows, ld_pos, ld_yielded, ld_status>>

rtVars == <<time_ns, window_ns, left, rt_idx, rates, rt_pc>>

lbVars == <<lb_df, horizons, labeled, lb_pc>>

snVars == <<sn_df, sn_levels, sn_summary, sn_pc>>

ftVars == <<ft_df, ft_topk, ft_pad, ft_out>>

vars == <<btVars, ldVars, rtVars, lbVars, snVars, ftVars>>

\* ------------------------------------------------------------------------
\* Fixed point and small helpers
\* ------------------------------------------------------------------------
Scale == 10 * 100

FMul(a, b) == (a * b) \div Scale

FDiv(a, b) == (a * Scale) \div b

Min(a, b) == IF a < b THEN a ELSE b

Max(a, b) == IF a > b THEN a ELSE b

NaN == <<>>

None == [none |-> TRUE]

RECURSIVE GCD(_, _)
GCD(a, b) == IF b = 0 THEN a ELSE GCD(b, a % b)

Abs(a) == IF a < 0 THEN -a ELSE a

\* exact rationals <<n, d>>, d > 0, in lowest terms
Rat(n, d) ==
    LET g == GCD(Abs(n), Abs(d))
        sgn == IF d < 0 THEN -1 ELSE 1
    IN  << sgn * (n \div g), sgn * (d \div g) >>

RAdd(x, y) == Rat(x[1] * y[2] + y[1] * x[2], x[2] * y[2])

RSub(x, y) == Rat(x[1] * y[2] - y[1] * x[2], x[2] * y[2])

RMul(x, y) == Rat(x[1] * y[1], x[2] * y[2])

RDiv(x, y) == Rat(x[1] * y[2], x[2] * y[1])

RInt(n) == << n, 1 >>

\* ------------------------------------------------------------------------
\* Bounds of the model
\* ------------------------------------------------------------------------
\* events in the replayed stream
MaxEvents == 50

\* events in the stream of a run in which the engine reports no trade
MaxLongEvents == 52

\* events and trades of a run in which the engine reports few trades
MaxFillEvents == 51

MaxFills == 1

\* trades one book.match() call returns
MaxMatch == 2

\* trades returned by all match calls of a run
MaxTrades == 2

\* rows of a CSV source given to the loader
MaxSourceRows == 5

\* largest chunk_rows
MaxChunk == 3

\* timestamps given to _rolling_event_rate, their largest value, the largest window
MaxTimes == 4

MaxTime == 4

MaxWindow == 3

\* rows of the frame given to generate_labels, and the largest horizon
MaxLabelRows == 3

MaxHorizon == 2

\* rows of the frame given to sanity_checks
MaxSanRows == 2

\* rows of a frame given to compute_features
MaxFeatRows == 3

\* ------------------------------------------------------------------------
\* strategy.py
\* ------------------------------------------------------------------------
\* the snapshot buffer width (the literal 50 of run_backtest)
W == 50

\* the event rows load_lobster yields (event_type, price, size, direction)
Events ==
    { [event_type |-> 1, price |-> 10 * Scale, size |-> 1, direction |-> 1],
      [event_type |-> 4, price |-> 9 * Scale, size |-> 2, direction |-> -1] }

ParamSets ==
    { [gamma |-> Scale \div 2, sigma |-> Scale, kappa |-> Scale \div 2, horizon |-> Scale],
      [gamma |-> Scale, sigma |-> Scale, kappa |-> Scale, horizon |-> 2 * Scale] }

\* the scalar the model returns (model(model_input).item())
Deltas == { -10 * Scale, Scale \div 10, 10 * Scale }

\* math.log(1 + x), tabulated to three decimals
Ln1p(x) ==
    CASE x = Scale \div 2 -> 405
      [] x = Scale -> 693
      [] x = 2 * Scale -> 1099
      [] OTHER -> x

reservation_price(mid_price, inv, p, t) ==
    mid_price - FMul(FMul(FMul(inv, p.gamma), FMul(p.sigma, p.sigma)), p.horizon - t)

optimal_spread(p, t) ==
    LET term1 == FMul(FMul(p.gamma, FMul(p.sigma, p.sigma)), p.horizon - t)
        term2 == FMul(FDiv(2 * Scale, p.gamma), Ln1p(FDiv(p.gamma, p.kappa)))
    IN  FMul(Scale \div 2, term1 + term2)

\* lob_engine.Side of an event
SideOf(direction) == IF direction = 1 THEN "Bid" ELSE "Ask"

Order(id, price, size, side) == [id |-> id, price |-> price, size |-> size, side |-> side]

\* ---- lob_engine (C++ extension, consumed through three calls) ----
\* top_levels(1): best bid and best ask price, 0 when the side is empty
Books ==
    { [bid |-> 0, ask |-> 0],
      [bid |-> 10 * Scale, ask |-> 0],
      [bid |-> 0, ask |-> 12 * Scale],
      [bid |-> 10 * Scale, ask |-> 12 * Scale] }

\* the price an engine that marks an empty side with a sentinel reports: very
\* low for a missing bid, very high for a missing ask
NoBid == -9999 * Scale

NoAsk == 9999 * Scale

SentinelBooks ==
    { [bid |-> NoBid, ask |-> NoAsk],
      [bid |-> 10 * Scale, ask |-> NoAsk],
      [bid |-> NoBid, ask |-> 12 * Scale],
      [bid |-> 10 * Scale, ask |-> 12 * Scale] }

\* top_levels(1) of an engine that reports an empty side as `absent`
BooksOf(absent) == IF absent = "zero" THEN Books ELSE SentinelBooks

\* top_levels(1) of the empty book
EmptyBook(absent) ==
    IF absent = "zero" THEN [bid |-> 0, ask |-> 0] ELSE [bid |-> NoBid, ask |-> NoAsk]

\* the trades one match() may return once `next_id` is the next free order id
TradesOf(next_id) ==
    { [aggressor_id |-> next_id - 1, price |-> 12 * Scale, qty |-> 1],
      [aggressor_id |-> next_id - 2, price |-> 10 * Scale, qty |-> 2],
      [aggressor_id |-> next_id - 3, price |-> 10 * Scale, qty |-> 1] }

RECURSIVE SeqsUpTo(_, _)
SeqsUpTo(S, n) ==
    IF n = 0 THEN { <<>> }
    ELSE LET shorter == SeqsUpTo(S, n - 1)
         IN  shorter \cup { Append(s, x) : s \in { q \in shorter : Len(q) = n - 1 }, x \in S }

\* match(): a finite sequence of trades
MatchResults(next_id, room) == SeqsUpTo(TradesOf(next_id), Min(MaxMatch, room))

\* the match() that follows the submission of a market event: a sell event
\* priced at or below the bid quote of the iteration before, still resting
\* (no trade of that iteration's match carried its id), may fill it at the
\* quote's price.  prev are the orders of the iteration before, log the
\* trades of the quote-step matches so far, ev_id the event's order id.
RestingBid(prev, log) ==
    /\ Len(prev) = 3
    /\ \A k \in 1..Len(log) : log[k].aggressor_id # prev[2].id

EventMatchResults(ev, ev_id, prev, log, room) ==
    { <<>> } \cup
    { << [aggressor_id |-> ev_id, price |-> prev[2].price, qty |-> 1,
          passive_id |-> prev[2].id] >> :
        x \in { y \in {1} : /\ room > 0
                            /\ ev.direction = -1
                            /\ RestingBid(prev, log)
                            /\ ev.price <= prev[2].price } }

\* build_lob_snapshot: the feature vector taken after event number n; its
\* numbers only feed the model, so it is kept as the token n
build_lob_snapshot(n, b) == n

\* ---- run_backtest ----
WarmingUpLe(snaps) == Len(snaps) <= W

WarmingUp(snaps) == Len(snaps) < W

OverfullLate(snaps) == Len(snaps) > W + 1

Overfull(snaps) == Len(snaps) > W

ToxicityUnclamped(predicted_delta) == predicted_delta

\* toxicity_penalty = max(min(predicted_delta, 0.5), -0.5)
ToxicityPenalty(predicted_delta) == Max(Min(predicted_delta, Scale \div 2), -(Scale \div 2))

\* mid of the quoting step
StepMid(b, ev) ==
    IF b.bid > 0 /\ b.ask > 0 THEN (b.bid + b.ask) \div 2 ELSE ev.price

\* t = idx / max(1, len(snapshots))
Progress(i, snaps) == (i * Scale) \div Max(1, Len(snaps))

\* the locals of one quoting step
QuoteLocals(i, snaps, b, ev, inv, p, predicted_delta) ==
    LET toxicity_penalty == ToxicityPenalty(predicted_delta)
        adjusted_inventory == inv + toxicity_penalty
        mid == StepMid(b, ev)
        t == Progress(i, snaps)
        r_price == reservation_price(mid, adjusted_inventory, p, t)
        spread == optimal_spread(p, t)
    IN  [best_bid |-> b.bid, best_ask |-> b.ask,
         predicted_delta |-> predicted_delta,
         toxicity_penalty |-> toxicity_penalty,
         adjusted_inventory |-> adjusted_inventory,
         mid |-> mid, t |-> t, r_price |-> r_price, spread |-> spread,
         bid_quote |-> r_price - spread, ask_quote |-> r_price + spread]

OurAskOffByOne(trade, next_id) == trade.aggressor_id = next_id - 2

\* is the trade the ask's?  (trade.aggressor_id == order_id - 1)
OurAsk(trade, next_id) == trade.aggressor_id = next_id - 1

\* the accounting loop over the trades of one match()
RECURSIVE Account(_, _, _)
Account(acc, ms, next_id) ==
    IF ms = <<>> THEN acc
    ELSE LET trade == Head(ms)
             acc1 == IF OurAsk(trade, next_id)
                     THEN [trades |-> acc.trades + 1,
                           inventory |-> acc.inventory - trade.qty * Scale,
                           cash |-> acc.cash + trade.qty * trade.price]
                     ELSE [trades |-> acc.trades + 1,
                           inventory |-> acc.inventory + trade.qty * Scale,
                           cash |-> acc.cash - trade.qty * trade.price]
         IN  Account(acc1, Tail(ms), next_id)

\* final_mid
FinalMid(b) == IF b.bid > 0 /\ b.ask > 0 THEN (b.bid + b.ask) \div 2 ELSE 0

\* the log entries of one quote-step match: the trade and the two quote ids
Logged(ms, next_id) ==
    [k \in 1..Len(ms) |->
        [aggressor_id |-> ms[k].aggressor_id, price |-> ms[k].price, qty |-> ms[k].qty,
         bid_id |-> next_id - 2, ask_id |-> next_id - 1]]

BtIdle ==
    /\ pc = "idle"
    /\ params = None
    /\ idx = 0
    /\ snapshots = <<>>
    /\ inventory = 0
    /\ cash = 0
    /\ trades = 0
    /\ order_id = 1
    /\ book = None
    /\ event = None
    /\ submitted = <<>>
    /\ locals = None
    /\ matchLog = <<>>
    /\ result = None
    /\ env = None
    /\ issued = 0
    /\ eventLog = <<>>

LdIdle ==
    /\ ld_message = <<>>
    /\ ld_orderbook = <<>>
    /\ chunk_rows = 0
    /\ ld_pos = 0
    /\ ld_yielded = <<>>
    /\ ld_status = "idle"

RtIdle ==
    /\ time_ns = <<>>
    /\ window_ns = 1
    /\ left = 0
    /\ rt_idx = 0
    /\ rates = <<>>
    /\ rt_pc = "idle"

LbIdle ==
    /\ lb_df = <<>>
    /\ horizons = <<>>
    /\ labeled = <<>>
    /\ lb_pc = "idle"

SnIdle ==
    /\ sn_df = <<>>
    /\ sn_levels = 0
    /\ sn_summary = None
    /\ sn_pc = "idle"

FtIdle ==
    /\ ft_df = <<>>
    /\ ft_topk = 0
    /\ ft_pad = FALSE
    /\ ft_out = <<>>

\* the variables run_backtest does not touch
notBt == <<ldVars, rtVars, lbVars, snVars, ftVars>>

notLd == <<btVars, rtVars, lbVars, snVars, ftVars>>

notRt == <<btVars, ldVars, lbVars, snVars, ftVars>>

notLb == <<btVars, ldVars, rtVars, snVars, ftVars>>

notSn == <<btVars, ldVars, rtVars, lbVars, ftVars>>

notFt == <<btVars, ldVars, rtVars, lbVars, snVars>>

BtInit ==
    /\ pc = "loop"
    /\ params \in ParamSets
    /\ idx = 0
    /\ snapshots = <<>>
    /\ inventory = 0
    /\ cash = 0
    /\ trades = 0
    /\ order_id = 1
    /\ book = EmptyBook("zero")
    /\ event = None
    /\ submitted = <<>>
    /\ locals = None
    /\ matchLog = <<>>
    /\ result = None
    /\ env = [events |-> MaxEvents, fills |-> MaxTrades, absent |-> "zero"]
    /\ issued = 0
    /\ eventLog = <<>>

\* one loop iteration that ends at `continue` (lines 108-117)
WarmupEvent ==
    /\ pc = "loop"
    /\ idx < env.events
    /\ \E ev \in Events, book1 \in BooksOf(env.absent) :
          LET snaps1 == Append(snapshots, build_lob_snapshot(idx + 1, book1))
          IN  /\ WarmingUp(snaps1)
              /\ \E em \in EventMatchResults(ev, order_id, submitted, matchLog,
                                              env.fills - Len(matchLog) - Len(eventLog)) :
                    eventLog' = eventLog \o em
              /\ event' = ev
              /\ submitted' = << Order(order_id, ev.price, ev.size, SideOf(ev.direction)) >>
              /\ order_id' = order_id + 1
              /\ issued' = issued + 1
              /\ book' = book1
              /\ snapshots' = snaps1
              /\ idx' = idx + 1
              /\ locals' = None
    /\ UNCHANGED <<pc, params, inventory, cash, trades, matchLog, result, env>>
    /\ UNCHANGED notBt

\* one loop iteration that quotes (lines 108-161)
QuoteEvent ==
    /\ pc = "loop"
    /\ idx < env.events
    /\ \E ev \in Events, book1 \in BooksOf(env.absent), predicted_delta \in Deltas,
          book2 \in BooksOf(env.absent) :
          LET snaps1 == Append(snapshots, build_lob_snapshot(idx + 1, book1))
              snaps2 == IF Overfull(snaps1) THEN Tail(snaps1) ELSE snaps1
              loc == QuoteLocals(idx, snaps2, book1, ev, inventory, params, predicted_delta)
              next_id == order_id + 3
          IN  /\ ~WarmingUp(snaps1)
              /\ \E em \in EventMatchResults(ev, order_id, submitted, matchLog,
                                              env.fills - Len(matchLog) - Len(eventLog)) :
                    /\ eventLog' = eventLog \o em
                    /\ \E ms \in MatchResults(next_id, env.fills - Len(matchLog)
                                                          - Len(eventLog) - Len(em)) :
                          LET acc == Account([trades |-> trades, inventory |-> inventory,
                                              cash |-> cash], ms, next_id)
                          IN  /\ trades' = acc.trades
                              /\ inventory' = acc.inventory
                              /\ cash' = acc.cash
                              /\ matchLog' = matchLog \o Logged(ms, next_id)
              /\ event' = ev
              /\ submitted' =
                    << Order(order_id, ev.price, ev.size, SideOf(ev.direction)),
                       Order(order_id + 1, loc.bid_quote, 1, "Bid"),
                       Order(order_id + 2, loc.ask_quote, 1, "Ask") >>
              /\ order_id' = next_id
              /\ issued' = issued + 3
              /\ book' = book2
              /\ snapshots' = snaps2
              /\ idx' = idx + 1
              /\ locals' = loc
    /\ UNCHANGED <<pc, params, result, env>>
    /\ UNCHANGED notBt

\* the stream ends: lines 163-172
Finish ==
    /\ pc = "loop"
    /\ \E elapsed \in {0, 1, 2} :
          result' = [orders_num |-> IF elapsed > 0 THEN order_id ELSE 0,
                     elapsed |-> elapsed,
                     final_mid |-> FinalMid(book),
                     pnl |-> cash + FMul(inventory, FinalMid(book)),
                     trades |-> trades]
    /\ pc' = "done"
    /\ UNCHANGED <<params, idx, snapshots, inventory, cash, trades, order_id,
                   book, event, submitted, locals, matchLog, env, issued, eventLog>>
    /\ UNCHANGED notBt

Init == BtInit /\ LdIdle /\ RtIdle /\ LbIdle /\ SnIdle /\ FtIdle

Next == WarmupEvent \/ QuoteEvent \/ Finish

Spec == Init /\ [][Next]_vars

\* a longer run against an engine that reports no trade and marks an empty
\* side either way
LongBtInit ==
    /\ pc = "loop"
    /\ params \in ParamSets
    /\ idx = 0
    /\ snapshots = <<>>
    /\ inventory = 0
    /\ cash = 0
    /\ trades = 0
    /\ order_id = 1
    /\ env \in { [events |-> MaxLongEvents, fills |-> 0, absent |-> a] :
                   a \in {"zero", "sentinel"} }
    /\ book = EmptyBook(env.absent)
    /\ event = None
    /\ submitted = <<>>
    /\ locals = None
    /\ matchLog = <<>>
    /\ result = None
    /\ issued = 0
    /\ eventLog = <<>>

LongInit == LongBtInit /\ LdIdle /\ RtIdle /\ LbIdle /\ SnIdle /\ FtIdle

SpecLong == LongInit /\ [][Next]_vars

\* a run that goes on after the first quotes, against an engine that reports
\* few trades
FillBtInit ==
    /\ pc = "loop"
    /\ params \in ParamSets
    /\ idx = 0
    /\ snapshots = <<>>
    /\ inventory = 0
    /\ cash = 0
    /\ trades = 0
    /\ order_id = 1
    /\ env = [events |-> MaxFillEvents, fills |-> MaxFills, absent |-> "zero"]
    /\ book = EmptyBook(env.absent)
    /\ event = None
    /\ submitted = <<>>
    /\ locals = None
    /\ matchLog = <<>>
    /\ result = None
    /\ issued = 0
    /\ eventLog = <<>>

FillInit == FillBtInit /\ LdIdle /\ RtIdle /\ LbIdle /\ SnIdle /\ FtIdle

SpecFill == FillInit /\ [][Next]_vars

\* ------------------------------------------------------------------------
\* analysis/load_lobster.py
\* ------------------------------------------------------------------------
\* one second in the model's time unit (1e9 ns in the source; the model's
\* clock ticks twice a second)
TicksPerSec == 2

\* a message CSV of m rows: row i carries time_sec = i / 2
MessageRows(m) == [i \in 1..m |-> [order_id |-> i, time_sec |-> i * (Scale \div 2)]]

\* an orderbook CSV of n rows
OrderbookRows(n) == [i \in 1..n |-> [snapshot |-> i]]

\* np.round(time_sec * 1e9).astype("int64"), half-ticks to even
TimeNs(time_sec) ==
    LET x == time_sec * TicksPerSec
        q == x \div Scale
        r == x % Scale
    IN  IF 2 * r > Scale \/ (2 * r = Scale /\ q % 2 = 1) THEN q + 1 ELSE q

\* pd.concat([message, orderbook], axis=1) of two equally long frames, with
\* the time_ns column
Concat(message, orderbook) ==
    [i \in 1..Len(message) |->
        [order_id |-> message[i].order_id,
         time_sec |-> message[i].time_sec,
         snapshot |-> orderbook[i].snapshot,
         time_ns |-> TimeNs(message[i].time_sec)]]

\* the k-th chunk (k = 0, 1, ...) a chunked reader hands out; <<>> once the
\* reader is exhausted
Chunk(rows, k, size) ==
    SubSeq(rows, k * size + 1, Min(Len(rows), (k + 1) * size))

\* len(message) != len(orderbook)
Misaligned(message, orderbook) == Len(message) # Len(orderbook)

LdInit ==
    /\ \E m \in 1..MaxSourceRows : ld_message = MessageRows(m)
    /\ \E n \in 1..MaxSourceRows : ld_orderbook = OrderbookRows(n)
    /\ chunk_rows \in 0..MaxChunk
    /\ ld_pos = 0
    /\ ld_yielded = <<>>
    /\ ld_status = "start"

\* load_lobster without chunk_rows: load_full
LoadFull ==
    /\ ld_status = "start"
    /\ chunk_rows = 0
    /\ IF Misaligned(ld_message, ld_orderbook)
       THEN /\ ld_status' = "raised"
            /\ UNCHANGED ld_yielded
       ELSE /\ ld_status' = "returned"
            /\ ld_yielded' = << Concat(ld_message, ld_orderbook) >>
    /\ UNCHANGED <<ld_message, ld_orderbook, chunk_rows, ld_pos>>
    /\ UNCHANGED notLd

\* load_lobster with chunk_rows: the iterator of iter_load is handed out
IterLoad ==
    /\ ld_status = "start"
    /\ chunk_rows # 0
    /\ ld_status' = "iterating"
    /\ UNCHANGED <<ld_message, ld_orderbook, chunk_rows, ld_pos, ld_yielded>>
    /\ UNCHANGED notLd

\* one next() on the iterator of iter_load: zip draws a chunk from each
\* reader and stops when either has none left
IterNext ==
    /\ ld_status = "iterating"
    /\ LET message_chunk == Chunk(ld_message, ld_pos, chunk_rows)
           orderbook_chunk == Chunk(ld_orderbook, ld_pos, chunk_rows)
       IN  IF message_chunk = <<>> \/ orderbook_chunk = <<>>
           THEN /\ ld_status' = "exhausted"
                /\ UNCHANGED <<ld_pos, ld_yielded>>
           ELSE IF Misaligned(message_chunk, orderbook_chunk)
           THEN /\ ld_status' = "raised"
                /\ UNCHANGED <<ld_pos, ld_yielded>>
           ELSE /\ ld_yielded' = Append(ld_yielded, Concat(message_chunk, orderbook_chunk))
                /\ ld_pos' = ld_pos + 1
                /\ UNCHANGED ld_status
    /\ UNCHANGED <<ld_message, ld_orderbook, chunk_rows>>
    /\ UNCHANGED notLd

LoadNext == LoadFull \/ IterLoad \/ IterNext

LoadInit == BtIdle /\ LdInit /\ RtIdle /\ LbIdle /\ SnIdle /\ FtIdle

SpecLoad == LoadInit /\ [][LoadNext]_vars

\* ------------------------------------------------------------------------
\* analysis/features.py, _rolling_event_rate
\* ------------------------------------------------------------------------
\* time_ns[left] < t - window_ns   (time_ns is 1-based here, left 0-based)
StaleLe(times, l, t, window) == times[l + 1] <= t - window

Stale(times, l, t, window) == times[l + 1] < t - window

\* window_count / (window_ns / 1e9)
RateOf(window_count, window) == Rat(window_count * TicksPerSec, window)

NonDecreasing(times) == \A i \in 1..(Len(times) - 1) : times[i] <= times[i + 1]

TimeSeqs == UNION { [1..n -> 0..MaxTime] : n \in 0..MaxTimes }

RtInit ==
    /\ time_ns \in { ts \in TimeSeqs : NonDecreasing(ts) }
    /\ window_ns \in 1..MaxWindow
    /\ left = 0
    /\ rt_idx = 0
    /\ rates = <<>>
    /\ rt_pc = "sweep"

\* one turn of the while loop: left += 1
AdvanceLeft ==
    /\ rt_pc = "sweep"
    /\ rt_idx < Len(time_ns)
    /\ Stale(time_ns, left, time_ns[rt_idx + 1], window_ns)
    /\ left' = left + 1
    /\ UNCHANGED <<time_ns, window_ns, rt_idx, rates, rt_pc>>
    /\ UNCHANGED notRt

\* the while loop is over: rates[idx] is written and the for loop moves on
WriteRate ==
    /\ rt_pc = "sweep"
    /\ rt_idx < Len(time_ns)
    /\ ~Stale(time_ns, left, time_ns[rt_idx + 1], window_ns)
    /\ rates' = Append(rates, RateOf(rt_idx - left + 1, window_ns))
    /\ rt_idx' = rt_idx + 1
    /\ UNCHANGED <<time_ns, window_ns, left, rt_pc>>
    /\ UNCHANGED notRt

\* the for loop is over: return rates
ReturnRates ==
    /\ rt_pc = "sweep"
    /\ rt_idx = Len(time_ns)
    /\ rt_pc' = "done"
    /\ UNCHANGED <<time_ns, window_ns, left, rt_idx, rates>>
    /\ UNCHANGED notRt

RateNext == AdvanceLeft \/ WriteRate \/ ReturnRates

RateInit == BtIdle /\ LdIdle /\ RtInit /\ LbIdle /\ SnIdle /\ FtIdle

SpecRate == RateInit /\ [][RateNext]_vars

\* ------------------------------------------------------------------------
\* analysis/labels.py
\* ------------------------------------------------------------------------
\* rows of the frame: mid and spread of a present book, or both missing
LabelRows ==
    { [mid |-> NaN, spread |-> NaN],
      [mid |-> << (21 * Scale) \div 2 >>, spread |-> << Scale >>],
      [mid |-> << 12 * Scale >>, spread |-> << 0 >>],
      [mid |-> << (29 * Scale) \div 2 >>, spread |-> << 3 * Scale >>] }

LabelFrames == UNION { [1..n -> LabelRows] : n \in 1..MaxLabelRows }

HorizonLists ==
    { << h >> : h \in 1..MaxHorizon }
        \cup { hs \in [1..2 -> 1..MaxHorizon] : hs[1] # hs[2] }

\* labeled["mid"].shift(-horizon)
ShiftBack(col, horizon) ==
    [i \in 1..Len(col) |-> IF i + horizon <= Len(col) THEN col[i + horizon] ELSE NaN]

\* future_mid - labeled["mid"]
NanSub(x, y) == IF x = NaN \/ y = NaN THEN NaN ELSE << x[1] - y[1] >>

\* np.maximum(labeled["spread"] / 2.0, 1)
Threshold(spread) == IF spread = NaN THEN NaN ELSE << Max(spread[1] \div 2, Scale) >>

\* comparisons with a missing operand are False
NanGt(x, y) == x # NaN /\ y # NaN /\ x[1] > y[1]

NanNeg(x) == IF x = NaN THEN NaN ELSE << -x[1] >>

\* np.where(raw_move > threshold, 1, np.where(raw_move < -threshold, -1, 0)).astype("int8")
LabelOf(raw_move, threshold) ==
    IF NanGt(raw_move, threshold) THEN 1
    ELSE IF NanGt(NanNeg(threshold), raw_move) THEN -1
    ELSE 0

\* the two columns generate_labels adds for one horizon
LabelColumns(df, horizon) ==
    LET mid == [i \in 1..Len(df) |-> df[i].mid]
        future_mid == ShiftBack(mid, horizon)
        raw_move == [i \in 1..Len(df) |-> NanSub(future_mid[i], mid[i])]
        threshold == [i \in 1..Len(df) |-> Threshold(df[i].spread)]
    IN  [horizon |-> horizon,
         raw_move |-> raw_move,
         label |-> [i \in 1..Len(df) |-> LabelOf(raw_move[i], threshold[i])]]

LbInit ==
    /\ lb_df \in LabelFrames
    /\ horizons \in HorizonLists
    /\ labeled = <<>>
    /\ lb_pc = "loop"

\* one turn of `for horizon in horizons`
LabelHorizon ==
    /\ lb_pc = "loop"
    /\ horizons # <<>>
    /\ labeled' = Append(labeled, LabelColumns(lb_df, Head(horizons)))
    /\ horizons' = Tail(horizons)
    /\ UNCHANGED <<lb_df, lb_pc>>
    /\ UNCHANGED notLb

\* return labeled
ReturnLabeled ==
    /\ lb_pc = "loop"
    /\ horizons = <<>>
    /\ lb_pc' = "done"
    /\ UNCHANGED <<lb_df, horizons, labeled>>
    /\ UNCHANGED notLb

LabelNext == LabelHorizon \/ ReturnLabeled

LabelInit == BtIdle /\ LdIdle /\ RtIdle /\ LbInit /\ SnIdle /\ FtIdle

SpecLabels == LabelInit /\ [][LabelNext]_vars

\* ------------------------------------------------------------------------
\* analysis/clean_validate.py
\* ------------------------------------------------------------------------
\* the sentinels of an absent level (-9999999999 and 9999999999 in the
\* source, shortened to fit TLC's 32-bit integers)
DUMMY_BID == -9999

DUMMY_ASK == 9999

\* the values num_levels takes
LevelChoices == {2, 3}

\* series.replace(DUMMY, np.nan)
Mask(price, dummy) == IF price = dummy THEN NaN ELSE << price >>

\* best_bid < best_ask, False when either is missing
NanLt(x, y) == x # NaN /\ y # NaN /\ x[1] < y[1]

SpreadOkNoNa(row) ==
    NanLt(Mask(row.bid_price[1], DUMMY_BID), Mask(row.ask_price[1], DUMMY_ASK))

\* (best_bid < best_ask) | best_bid.isna() | best_ask.isna()
SpreadOk(row) ==
    LET best_bid == Mask(row.bid_price[1], DUMMY_BID)
        best_ask == Mask(row.ask_price[1], DUMMY_ASK)
    IN  NanLt(best_bid, best_ask) \/ best_bid = NaN \/ best_ask = NaN

\* the extended reals np.nan_to_num produces
NegInf == [inf |-> -1, v |-> 0]

PosInf == [inf |-> 1, v |-> 0]

\* np.nan_to_num(x, nan=fill)
NanToNum(x, fill) == IF x = NaN THEN fill ELSE [inf |-> 0, v |-> x[1]]

\* x >= y on the extended reals
ExtGe(x, y) == IF x.inf # y.inf THEN x.inf > y.inf ELSE (x.inf # 0 \/ x.v >= y.v)

\* nan_to_num(bid_prices, nan=-inf)[:, :-1] >= nan_to_num(bid_prices, nan=-inf)[:, 1:]
BidRowMonotonic(row, n) ==
    \A k \in 1..(n - 1) :
        ExtGe(NanToNum(Mask(row.bid_price[k], DUMMY_BID), NegInf),
              NanToNum(Mask(row.bid_price[k + 1], DUMMY_BID), NegInf))

\* nan_to_num(ask_prices, nan=inf)[:, :-1] <= nan_to_num(ask_prices, nan=inf)[:, 1:]
AskRowMonotonic(row, n) ==
    \A k \in 1..(n - 1) :
        ExtGe(NanToNum(Mask(row.ask_price[k + 1], DUMMY_ASK), PosInf),
              NanToNum(Mask(row.ask_price[k], DUMMY_ASK), PosInf))

\* int(flag)
IntOf(flag) == IF flag THEN 1 ELSE 0

\* the summary sanity_checks returns
Summary(df, n) ==
    [rows |-> Len(df),
     spread_violations |-> Cardinality({ i \in 1..Len(df) : ~SpreadOk(df[i]) }),
     sizes_non_negative |->
        IntOf(\A i \in 1..Len(df) : \A k \in 1..n :
                  df[i].bid_size[k] >= 0 /\ df[i].ask_size[k] >= 0),
     bid_monotonic |-> IntOf(\A i \in 1..Len(df) : BidRowMonotonic(df[i], n)),
     ask_monotonic |-> IntOf(\A i \in 1..Len(df) : AskRowMonotonic(df[i], n)),
     halt_rows |-> Cardinality({ i \in 1..Len(df) : df[i].event_type = 7 })]

Const(n, v) == [k \in 1..n |-> v]

\* rows of n levels: every placement of sentinels and of two prices on one
\* side against a plain other side, a locked book, a negative size, a halt
SanRows(n) ==
    { [bid_price |-> b, ask_price |-> Const(n, 12), bid_size |-> Const(n, 1),
       ask_size |-> Const(n, 1), event_type |-> 1] : b \in [1..n -> {DUMMY_BID, 10, 11}] }
    \cup
    { [bid_price |-> Const(n, 11), ask_price |-> a, bid_size |-> Const(n, 1),
       ask_size |-> Const(n, 1), event_type |-> 1] : a \in [1..n -> {DUMMY_ASK, 10, 12}] }
    \cup
    { [bid_price |-> Const(n, 10), ask_price |-> Const(n, 10), bid_size |-> Const(n, 1),
       ask_size |-> Const(n, 1), event_type |-> 1],
      [bid_price |-> Const(n, 10), ask_price |-> Const(n, 12), bid_size |-> Const(n, -1),
       ask_size |-> Const(n, 1), event_type |-> 1],
      [bid_price |-> Const(n, 10), ask_price |-> Const(n, 12), bid_size |-> Const(n, 0),
       ask_size |-> Const(n, 0), event_type |-> 7] }

SnInit ==
    /\ sn_levels \in LevelChoices
    /\ sn_df \in UNION { [1..r -> SanRows(sn_levels)] : r \in 1..MaxSanRows }
    /\ sn_summary = None
    /\ sn_pc = "call"

\* sanity_checks(df, num_levels)
SanityChecks ==
    /\ sn_pc = "call"
    /\ sn_summary' = Summary(sn_df, sn_levels)
    /\ sn_pc' = "done"
    /\ UNCHANGED <<sn_df, sn_levels>>
    /\ UNCHANGED notSn

SanityNext == SanityChecks

SanityInit == BtIdle /\ LdIdle /\ RtIdle /\ LbIdle /\ SnInit /\ FtIdle

SpecSanity == SanityInit /\ [][SanityNext]_vars

\* ------------------------------------------------------------------------
\* analysis/features.py, compute_features
\* ------------------------------------------------------------------------
\* the rolling windows of order_flow_imbalance and realized_volatility
OfiWindow == 100

VolWindow == 100

\* min_periods of _rolling_std
VolMinPeriods == 2

\* the values topk takes (frames here have two levels)
TopkChoices == {1, 2}

\* row templates: dt is the time since the previous row, in ticks
FeatRowKinds ==
    { [dt |-> 0, event_type |-> 1, direction |-> 1, size |-> 2,
       bid_price |-> << 9, 8 >>, bid_size |-> << 3, 1 >>,
       ask_price |-> << 11, 12 >>, ask_size |-> << 1, 2 >>],
      [dt |-> 1, event_type |-> 3, direction |-> -1, size |-> 1,
       bid_price |-> << 19, DUMMY_BID >>, bid_size |-> << 2, 7 >>,
       ask_price |-> << 21, 22 >>, ask_size |-> << 2, 2 >>],
      [dt |-> 2, event_type |-> 7, direction |-> 1, size |-> 4,
       bid_price |-> << DUMMY_BID, DUMMY_BID >>, bid_size |-> << 0, 0 >>,
       ask_price |-> << 11, DUMMY_ASK >>, ask_size |-> << 0, 0 >>],
      [dt |-> 3, event_type |-> 4, direction |-> 1, size |-> 3,
       bid_price |-> << 19, 18 >>, bid_size |-> << 1, 1 >>,
       ask_price |-> << 21, DUMMY_ASK >>, ask_size |-> << 4, 5 >>] }

RECURSIVE SumTo(_, _)
SumTo(f, n) == IF n = 0 THEN 0 ELSE f[n] + SumTo(f, n - 1)

\* the frame of a sequence of templates: time_ns accumulates dt
FrameOf(kinds) ==
    [i \in 1..Len(kinds) |->
        [time_ns |-> SumTo([j \in 1..Len(kinds) |-> kinds[j].dt], i),
         event_type |-> kinds[i].event_type,
         direction |-> kinds[i].direction,
         size |-> kinds[i].size,
         bid_price |-> kinds[i].bid_price, bid_size |-> kinds[i].bid_size,
         ask_price |-> kinds[i].ask_price, ask_size |-> kinds[i].ask_size]]

FeatFrames == { FrameOf(ks) : ks \in UNION { [1..n -> FeatRowKinds] : n \in 1..MaxFeatRows } }

\* _topk_depth: np.nansum(sizes[:, :k], axis=1) for one row
TopkDepth(sizes, k) == SumTo(sizes, k)

\* _rolling_event_rate as a function: the sweep from (idx, left)
RECURSIVE Sweep(_, _, _, _, _)
Sweep(times, window, i, l, acc) ==
    IF i = Len(times) THEN acc
    ELSE IF Stale(times, l, times[i + 1], window)
         THEN Sweep(times, window, i, l + 1, acc)
         ELSE Sweep(times, window, i + 1, l, Append(acc, RateOf(i - l + 1, window)))

RollingEventRate(times) == Sweep(times, TicksPerSec, 0, 0, <<>>)

RollingRowsAhead(i, n, window) == Max(1, i - window + 1)..Min(n, i + 1)

\* the rows of the rolling window that ends at row i of n
RollingRows(i, n, window) == Max(1, i - window + 1)..i

RECURSIVE SumSet(_, _)
SumSet(f, S) ==
    IF S = {} THEN 0
    ELSE LET x == CHOOSE y \in S : TRUE IN f[x] + SumSet(f, S \ {x})

RECURSIVE RSumSet(_, _)
RSumSet(f, S) ==
    IF S = {} THEN RInt(0)
    ELSE LET x == CHOOSE y \in S : TRUE IN RAdd(f[x], RSumSet(f, S \ {x}))

\* np.select([event_type.isin([1]), event_type.isin([2, 3, 4, 5])], [1, -1], default=0)
EventSign(event_type) ==
    IF event_type = 1 THEN 1 ELSE IF event_type \in {2, 3, 4, 5} THEN -1 ELSE 0

\* (b - a) / (b + a) on non-negative sizes; 0 / 0 is missing
Imbalance(b, a) == IF b + a = 0 THEN NaN ELSE << Rat(b - a, b + a) >>

\* forward fill
RECURSIVE Ffill(_, _)
Ffill(col, i) ==
    IF i = 0 THEN NaN ELSE IF col[i] # NaN THEN col[i] ELSE Ffill(col, i - 1)

\* mid_series.pct_change().fillna(0.0)
MidRet(mid, pad) ==
    [i \in 1..Len(mid) |->
        LET cur == IF pad THEN Ffill(mid, i) ELSE mid[i]
            prev == IF i = 1 THEN NaN ELSE IF pad THEN Ffill(mid, i - 1) ELSE mid[i - 1]
        IN  IF cur = NaN \/ prev = NaN THEN RInt(0)
            ELSE RSub(RDiv(cur[1], prev[1]), RInt(1))]

\* the sample variance (ddof = 1) of the values of f over S, |S| >= 2
Variance(f, S) ==
    LET k == Cardinality(S)
        mean == RDiv(RSumSet(f, S), RInt(k))
        sq == [x \in S |-> RMul(RSub(f[x], mean), RSub(f[x], mean))]
    IN  RDiv(RSumSet(sq, S), RInt(k - 1))

\* the derived columns of compute_features(df, num_levels, topk).
\* realized_volatility is kept as its square, the rolling sample variance.
ComputeFeatures(df, topk, pad) ==
    LET n == Len(df)
        best_bid == [i \in 1..n |-> Mask(df[i].bid_price[1], DUMMY_BID)]
        best_ask == [i \in 1..n |-> Mask(df[i].ask_price[1], DUMMY_ASK)]
        mid == [i \in 1..n |->
                  IF best_bid[i] = NaN \/ best_ask[i] = NaN THEN NaN
                  ELSE << Rat(best_bid[i][1] + best_ask[i][1], 2) >>]
        bid_depth_k == [i \in 1..n |-> TopkDepth(df[i].bid_size, topk)]
        ask_depth_k == [i \in 1..n |-> TopkDepth(df[i].ask_size, topk)]
        event_rate == RollingEventRate([i \in 1..n |-> df[i].time_ns])
        signed_flow == [i \in 1..n |->
                          df[i].direction * df[i].size * EventSign(df[i].event_type)]
        mid_ret == MidRet(mid, pad)
    IN  [i \in 1..n |->
          [best_bid |-> best_bid[i],
           best_ask |-> best_ask[i],
           mid |-> mid[i],
           spread |-> IF best_bid[i] = NaN \/ best_ask[i] = NaN THEN NaN
                      ELSE << best_ask[i][1] - best_bid[i][1] >>,
           level1_imbalance |-> Imbalance(df[i].bid_size[1], df[i].ask_size[1]),
           topk_imbalance |-> Imbalance(bid_depth_k[i], ask_depth_k[i]),
           depth_topk_bid |-> bid_depth_k[i],
           depth_topk_ask |-> ask_depth_k[i],
           depth_total_topk |-> bid_depth_k[i] + ask_depth_k[i],
           microprice |->
              IF best_bid[i] = NaN \/ best_ask[i] = NaN
                 \/ df[i].bid_size[1] + df[i].ask_size[1] = 0 THEN NaN
              ELSE << Rat(best_bid[i][1] * df[i].ask_size[1]
                            + best_ask[i][1] * df[i].bid_size[1],
                          df[i].bid_size[1] + df[i].ask_size[1]) >>,
           event_rate |-> event_rate[i],
           order_flow_imbalance |-> SumSet(signed_flow, RollingRows(i, n, OfiWindow)),
           realized_volatility |->
              LET rows == RollingRows(i, n, VolWindow)
              IN  IF Cardinality(rows) < VolMinPeriods THEN RInt(0)
                  ELSE Variance(mid_ret, rows)]]

\* two calls whose frames share at least their first row
FtInit ==
    /\ ft_df \in { fs \in [1..2 -> FeatFrames] : fs[1][1] = fs[2][1] }
    /\ ft_topk \in TopkChoices
    /\ ft_pad \in BOOLEAN
    /\ ft_out = << <<>>, <<>> >>

\* compute_features on the first frame, then on the second
CallComputeFeatures ==
    /\ \E c \in 1..2 :
          /\ ft_out[c] = <<>>
          /\ \A b \in 1..(c - 1) : ft_out[b] # <<>>
          /\ ft_out' = [ft_out EXCEPT ![c] = ComputeFeatures(ft_df[c], ft_topk, ft_pad)]
    /\ UNCHANGED <<ft_df, ft_topk, ft_pad>>
    /\ UNCHANGED notFt

FeatNext == CallComputeFeatures

FeatInit == BtIdle /\ LdIdle /\ RtIdle /\ LbIdle /\ SnIdle /\ FtInit

SpecFeatures == FeatInit /\ [][FeatNext]_vars

\* ------------------------------------------------------------------------
\* Properties of run_backtest
\* ------------------------------------------------------------------------
\* the quote orders of the last iteration: everything submitted after the
\* order that carries the market event
QuoteOrders == SubSeq(submitted, 2, Len(submitted))

CarriesEvent(o) ==
    /\ o.price = event.price
    /\ o.size = event.size
    /\ o.side = SideOf(event.direction)

\* C1: with W = 50, processing any of the first 49 events submits the order
\* of the market event and no quote order; processing the 50th and every
\* later event submits the event's order and then exactly two quote orders,
\* a bid and then an ask, each of size 1.
C1_WarmUp ==
    idx >= 1 =>
        /\ Len(submitted) >= 1
        /\ CarriesEvent(submitted[1])
        /\ idx < 50 => QuoteOrders = <<>>
        /\ idx >= 50 =>
              /\ Len(QuoteOrders) = 2
              /\ QuoteOrders[1].side = "Bid" /\ QuoteOrders[1].size = 1
              /\ QuoteOrders[2].side = "Ask" /\ QuoteOrders[2].size = 1

\* the 49th event was processed without quoting, or a later one with quotes
C1_Witness == idx = 51 /\ Len(QuoteOrders) = 2

\* hand arithmetic over the logged trades
AskAttributed(e) == e.aggressor_id = e.ask_id

RECURSIVE SumOver(_, _, _)
SumOver(log, keep, ask) ==
    IF log = <<>> THEN 0
    ELSE LET e == Head(log)
             v == IF AskAttributed(e) = ask
                  THEN (IF keep = "qty" THEN e.qty * Scale ELSE e.qty * e.price)
                  ELSE 0
         IN  v + SumOver(Tail(log), keep, ask)

HandFinalMid ==
    IF book.bid # 0 /\ book.ask # 0 THEN (book.bid + book.ask) \div 2 ELSE 0

C7_Clamp ==
    [][ (idx' = idx + 1 /\ locals' # None) =>
          LET pd == locals'.predicted_delta
              tp == locals'.toxicity_penalty
              half == Scale \div 2
          IN  /\ pd > half => tp = half
              /\ pd < -half => tp = -half
              /\ (pd >= -half /\ pd <= half) => tp = pd
              /\ locals'.adjusted_inventory = inventory + tp
              /\ locals'.r_price =
                    reservation_price(locals'.mid, inventory + tp, params, locals'.t)
              /\ submitted'[2].price = locals'.r_price - locals'.spread
              /\ submitted'[3].price = locals'.r_price + locals'.spread ]_vars

\* a prediction of 10 was clamped to 0.5 and quoted
C7_Witness ==
    /\ locals # None
    /\ locals.predicted_delta = 10 * Scale
    /\ locals.toxicity_penalty = Scale \div 2
    /\ Len(submitted) = 3

\* ------------------------------------------------------------------------
\* Properties of the loader, the event rate and the labels
\* ------------------------------------------------------------------------
\* C8: when the two sources differ in row count the load never ends
\* normally: load_full does not return a frame and the iterator of
\* iter_load is never exhausted without having raised.
C8_MisalignedNeverEndsNormally ==
    Misaligned(ld_message, ld_orderbook) => ld_status \notin {"returned", "exhausted"}

\* the brute-force count for row i (1-based): rows j <= i with
\* time[j] >= time[i] - window
BruteCount(i) ==
    Cardinality({ j \in 1..i : time_ns[j] >= time_ns[i] - window_ns })

C4_State ==
    /\ left <= rt_idx
    /\ rt_idx < Len(time_ns) => left <= rt_idx
    /\ Len(rates) = rt_idx
    /\ \A i \in 1..Len(rates) : rates[i] = Rat(BruteCount(i) * TicksPerSec, window_ns)

\* C4: for non-decreasing timestamps and a positive window every rate
\* written equals the brute-force count of the row divided by the window in
\* seconds; the left pointer never passes the current index and only moves
\* forward.
C4_TwoPointer == [](C4_State) /\ [][left' >= left]_vars

\* a finished sweep in which the pointer moved and a window held two events
C4_Witness ==
    /\ rt_pc = "done"
    /\ left >= 1
    /\ Len(rates) >= 3
    /\ \E i \in 1..Len(rates) : BruteCount(i) = 2 /\ rates[i] = RateOf(2, window_ns)

\* C3: for every horizon processed, each of the final `horizon` rows has a
\* missing raw_move and a label that is a missing marker, not 0, +1 or -1.
C3_TailLabelsMissing ==
    \A c \in 1..Len(labeled) :
        \A i \in 1..Len(lb_df) :
            i + labeled[c].horizon > Len(lb_df) =>
                /\ labeled[c].raw_move[i] = NaN
                /\ labeled[c].label[i] \notin {0, 1, -1}

\* ------------------------------------------------------------------------
\* Properties of the validator
\* ------------------------------------------------------------------------
\* rows whose two level-1 prices are both present and locked or crossed
CrossedRows ==
    { i \in 1..Len(sn_df) :
        /\ sn_df[i].bid_price[1] # DUMMY_BID
        /\ sn_df[i].ask_price[1] # DUMMY_ASK
        /\ sn_df[i].bid_price[1] >= sn_df[i].ask_price[1] }

\* C5: sanity_checks returns the summary whatever the data, and its
\* spread_violations is the number of rows with both level-1 prices present
\* and best_bid >= best_ask; a row with a sentinel at level 1 is not counted.
C5_SpreadViolations ==
    sn_pc = "done" =>
        /\ sn_summary # None
        /\ sn_summary.rows = Len(sn_df)
        /\ sn_summary.spread_violations = Cardinality(CrossedRows)

\* two rows, one crossed and counted, one with a sentinel at level 1
C5_Witness ==
    /\ sn_pc = "done"
    /\ Len(sn_df) = 2
    /\ sn_summary.spread_violations = 1
    /\ \E i \in 1..2 : sn_df[i].bid_price[1] = DUMMY_BID \/ sn_df[i].ask_price[1] = DUMMY_ASK

BidInversion(row, j, k) ==
    /\ row.bid_price[j] # DUMMY_BID
    /\ row.bid_price[k] # DUMMY_BID
    /\ row.bid_price[j] < row.bid_price[k]

AskInversion(row, j, k) ==
    /\ row.ask_price[j] # DUMMY_ASK
    /\ row.ask_price[k] # DUMMY_ASK
    /\ row.ask_price[j] > row.ask_price[k]

\* C6: an absent level never counts against monotonicity: bid_monotonic is
\* false only if some row has present bid levels j < k with
\* price[j] < price[k], ask_monotonic only if some row has present ask
\* levels j < k with price[j] > price[k]; and an inversion between adjacent
\* present levels makes the flag false.
C6_AbsentLevelsNeverFlagged ==
    sn_pc = "done" =>
        /\ sn_summary.bid_monotonic = 0 =>
              \E i \in 1..Len(sn_df) : \E j, k \in 1..sn_levels :
                  j < k /\ BidInversion(sn_df[i], j, k)
        /\ sn_summary.ask_monotonic = 0 =>
              \E i \in 1..Len(sn_df) : \E j, k \in 1..sn_levels :
                  j < k /\ AskInversion(sn_df[i], j, k)
        /\ (\E i \in 1..Len(sn_df) : \E k \in 1..(sn_levels - 1) :
                BidInversion(sn_df[i], k, k + 1)) => sn_summary.bid_monotonic = 0
        /\ (\E i \in 1..Len(sn_df) : \E k \in 1..(sn_levels - 1) :
                AskInversion(sn_df[i], k, k + 1)) => sn_summary.ask_monotonic = 0

\* ------------------------------------------------------------------------
\* Properties of the feature engine
\* ------------------------------------------------------------------------
\* the sizes of the first K levels of one side whose price is present
PresentDepth(prices, sizes, dummy) ==
    SumSet(sizes, { k \in 1..ft_topk : prices[k] # dummy })

\* C9: in every row the top-K depth of a side is the sum of the sizes of the
\* first K levels whose price is not the sentinel, and topk_imbalance is
\* formed from those two sums.
C9_DepthSkipsSentinelLevels ==
    \A c \in 1..Len(ft_out) :
        ft_out[c] # <<>> =>
            \A i \in 1..Len(ft_df[c]) :
                LET row == ft_df[c][i]
                    b == PresentDepth(row.bid_price, row.bid_size, DUMMY_BID)
                    a == PresentDepth(row.ask_price, row.ask_size, DUMMY_ASK)
                IN  /\ ft_out[c][i].depth_topk_bid = b
                    /\ ft_out[c][i].depth_topk_ask = a
                    /\ ft_out[c][i].topk_imbalance = Imbalance(b, a)

\* the rows on which the two frames agree from the start
RECURSIVE CommonPrefix(_, _, _)
CommonPrefix(x, y, i) ==
    IF i < Len(x) /\ i < Len(y) /\ x[i + 1] = y[i + 1] THEN CommonPrefix(x, y, i + 1) ELSE i

\* C10: two frames that agree on their first rows get the same derived
\* fields on those rows, whatever follows.
C10_Causal ==
    (ft_out # <<>> /\ ft_out[1] # <<>> /\ ft_out[2] # <<>>) =>
        \A i \in 1..CommonPrefix(ft_df[1], ft_df[2], 0) : ft_out[1][i] = ft_out[2][i]

\* two frames of three rows that agree on two and differ, with different
\* features, on the third
C10_Witness ==
    /\ ft_out # <<>> /\ ft_out[1] # <<>> /\ ft_out[2] # <<>>
    /\ Len(ft_df[1]) = 3 /\ Len(ft_df[2]) = 3
    /\ CommonPrefix(ft_df[1], ft_df[2], 0) = 2
    /\ ft_out[1][3] # ft_out[2][3]
    /\ ft_out[1][2].realized_volatility # RInt(0)
    /\ ft_out[1][2].order_flow_imbalance # 0

\* ------------------------------------------------------------------------
\* Properties of run_backtest: attribution, throughput, mid, buffer, fills,
\* progress
\* ------------------------------------------------------------------------
\* C11: every trade returned by the quote-step match call is attributed to
\* the quote it matches: a trade that decreases inventory and increases cash
\* carries the id of the ask just placed, a trade that increases inventory
\* and decreases cash carries the id of the bid just placed, and a trade
\* whose aggressor id is neither of the two changes neither inventory nor
\* cash.  (Stated over the iterations whose quote-step match returns one
\* trade, where the effect of that trade is the change of the iteration.)
C11_Attribution ==
    [][ (Len(matchLog') = Len(matchLog) + 1) =>
          LET e == matchLog'[Len(matchLog')]
          IN  /\ (inventory' < inventory /\ cash' > cash) => e.aggressor_id = e.ask_id
              /\ (inventory' > inventory /\ cash' < cash) => e.aggressor_id = e.bid_id
              /\ e.aggressor_id \notin {e.bid_id, e.ask_id} =>
                    (inventory' = inventory /\ cash' = cash) ]_vars

\* C12: the numerator of the reported throughput is the number of orders
\* issued to the engine during the run (one per processed event plus two
\* per quoting step).
C12_ThroughputNumerator ==
    (pc = "done" /\ result.elapsed > 0) => result.orders_num = issued

\* is the side the quoting step read absent: zero or that side's sentinel
AbsentBid(price) == price \in {0, NoBid}

AbsentAsk(price) == price \in {0, NoAsk}

\* C13: at every quoting step, when the top of book reports an absent best
\* bid or an absent best ask (zero or the side's sentinel) the mid is the
\* originating event's price; only when both are present is it
\* (best_bid + best_ask) / 2.
C13_MidFallback ==
    locals # None =>
        IF AbsentBid(locals.best_bid) \/ AbsentAsk(locals.best_ask)
        THEN locals.mid = event.price
        ELSE locals.mid = (locals.best_bid + locals.best_ask) \div 2

\* the feature vectors of events lo..hi in arrival order
VectorsOf(lo, hi) == [k \in 1..(hi - lo + 1) |-> lo + k - 1]

\* C14: after the n-th event the buffer holds exactly the feature vectors of
\* the last min(n, 50) events in arrival order (so the oldest is the one
\* dropped when a 51st would be kept), and whenever the model was invoked
\* the buffer holds exactly 50 entries.
C14_BoundedFifo ==
    /\ snapshots = VectorsOf(idx - (IF idx < 50 THEN idx ELSE 50) + 1, idx)
    /\ locals # None => Len(snapshots) = 50

\* the 52nd event was processed: vectors 1 and 2 are gone, 3..52 remain
C14_Witness ==
    /\ idx = 52
    /\ locals # None
    /\ Len(snapshots) = 50
    /\ snapshots[1] = 3
    /\ snapshots[50] = 52

RECURSIVE EventFills(_, _)
EventFills(log, keep) ==
    IF log = <<>> THEN 0
    ELSE (IF keep = "qty" THEN Head(log).qty * Scale ELSE Head(log).qty * Head(log).price)
         + EventFills(Tail(log), keep)

\* C15: every trade the engine reports in which one of the simulator's own
\* quotes is filled, by the match call after a market-event submission as
\* well as by the one after the quote submission, changes inventory and cash
\* by its quantity and price * quantity and increments the trade count.  (A
\* fill reported after a market-event submission is a fill of a resting bid
\* quote: inventory up, cash down.)
C15_FillsReconciled ==
    /\ trades = Len(matchLog) + Len(eventLog)
    /\ inventory = SumOver(matchLog, "qty", FALSE) - SumOver(matchLog, "qty", TRUE)
                      + EventFills(eventLog, "qty")
    /\ cash = SumOver(matchLog, "value", TRUE) - SumOver(matchLog, "value", FALSE)
                 - EventFills(eventLog, "value")

\* C16: at every quoting step 0 <= t <= 1 and t never decreases from one
\* quoting step to the next; with horizon >= 1 and positive gamma, sigma,
\* kappa the factor horizon - t is never negative, optimal_spread is
\* positive and the bid quote is strictly below the ask quote.
C16_ProgressFraction ==
    /\ [](locals # None =>
            /\ 0 <= locals.t /\ locals.t <= Scale
            /\ (params.horizon >= Scale /\ params.gamma > 0 /\ params.sigma > 0
                   /\ params.kappa > 0) =>
                  /\ params.horizon - locals.t >= 0
                  /\ locals.spread > 0
                  /\ locals.bid_quote < locals.ask_quote)
    /\ [][ (locals # None /\ locals' # None) => locals'.t >= locals.t ]_vars

====
